---- MODULE Spec2Model ----
(***************************************************************************)
(* Agente-Github-Toolkit: the in-memory QueryCache (src/src/cache.py), the *)
(* TokenMonitor usage ledger (src/src/token_monitor.py) and the            *)
(* interactive loop that wires them together (src/scripts/run_agent.py).   *)
(*                                                                         *)
(* Texts are sequences of one-character strings, so that string            *)
(* concatenation, len() and Python truthiness are computed, not assumed.   *)
(* An Optional value is <<>> (None) or <<v>> (the value v).                *)
(*                                                                         *)
(* datetime.now() is one clock, read by the cache and by the ledger; two    *)
(* operations may read the same value. It never runs backwards, except in  *)
(* SpecWallClock, where the wall clock it reads can be set back.           *)
(* Each component has its own specification (SpecCache, SpecCallers,       *)
(* SpecMonitor, SpecLog, SpecCount, SpecReport, SpecFilter, SpecWallClock, *)
(* SpecLoop) over the same variables; Spec joins them.                     *)
(***************************************************************************)
EXTENDS Integers, Sequences, FiniteSets, TLC

VARIABLES
    now,          \* the reading of datetime.now(), in clock ticks
    cache,        \* QueryCache.cache: key -> Absent or <<[value, timestamp]>>
    written,      \* history: per key, the last set() since the last clear()
    records,      \* the rows of table token_usage, in insertion (id) order
    session,      \* TokenMonitor.current_session_tokens
    model_name,   \* TokenMonitor.model_name
    tokenizer,    \* TokenMonitor.tokenizer: <<>> (None) or <<name>>
    nlogged,      \* history: the number of log_query calls that returned
    pc,           \* run_agent.main: "loop" while in the while-loop, then "done"
    callers,      \* per concurrent caller of the cache: its position in its call
    last          \* the operation that produced this state, its inputs and result

vars == <<now, cache, written, records, session, model_name, tokenizer,
          nlogged, pc, callers, last>>

cacheVars  == <<cache, written>>
ledgerVars == <<records, session, model_name, tokenizer, nlogged>>

-----------------------------------------------------------------------------
(* Bounds of the model *)

\* ttl_seconds of the cache under check, in clock ticks
TTL == 2
\* the clock stops advancing here
MaxTime == 4

-----------------------------------------------------------------------------
(* Values *)

None == <<>>
Some(v) == <<v>>

Min(a, b) == IF a <= b THEN a ELSE b

\* Python's truthiness of an Optional[str]: None and "" are falsy
Truthy(opt) == opt # None /\ Len(opt[1]) > 0

\* the texts used as queries, owners, repository names and answers
S_a   == <<"a">>
S_ab  == <<"a", "|", "b">>
S_bc  == <<"b", "|", "c">>
S_c   == <<"c">>
S_d   == <<"d">>
S_x   == <<"x">>
S_y4  == <<"y", "y", "y", "y">>
S_y5  == <<"y", "y", "y", "y", "y">>
Empty == <<>>

\* (query, repo_owner, repo_name) triples handed to the cache
Triples == { <<S_ab, S_c, S_d>>, <<S_a, S_bc, S_d>>, <<S_a, S_c, S_d>> }

\* the values stored in the cache
Values == { Empty, S_x, S_y4 }

-----------------------------------------------------------------------------
(* QueryCache *)

\* hashlib.md5(...).hexdigest(), taken to be injective on the string it hashes
Md5(s) == <<"md5", s>>

KeyString_NoSeparator(query, repo_owner, repo_name) ==
    query \o repo_owner \o repo_name

\* f"{query}|{repo_owner}|{repo_name}"
KeyString(query, repo_owner, repo_name) ==
    query \o <<"|">> \o repo_owner \o <<"|">> \o repo_name

\* QueryCache._generate_key
GenerateKey(t) == Md5(KeyString(t[1], t[2], t[3]))

Keys == { GenerateKey(t) : t \in Triples }

Absent == <<>>
Entry(v, ts) == <<[value |-> v, timestamp |-> ts]>>
InCache(c, k) == c[k] # Absent

IsExpired_AtTtl(ts, t) == t - ts >= TTL

\* datetime.now() - timestamp > timedelta(seconds=self.ttl)
IsExpired(ts, t) == t - ts > TTL

\* QueryCache.get: the value returned
GetResult(c, k, t) ==
    IF ~InCache(c, k) THEN None
    ELSE IF IsExpired(c[k][1].timestamp, t) THEN None
    ELSE Some(c[k][1].value)

GetEffect_NoDelete(c, k, t) == c

GetEffect_Renew(c, k, t) ==
    IF ~InCache(c, k) THEN c
    ELSE IF IsExpired(c[k][1].timestamp, t) THEN [c EXCEPT ![k] = Absent]
    ELSE [c EXCEPT ![k] = Entry(c[k][1].value, t)]

\* QueryCache.get: the map afterwards (an expired entry is deleted)
GetEffect(c, k, t) ==
    IF InCache(c, k) /\ IsExpired(c[k][1].timestamp, t)
    THEN [c EXCEPT ![k] = Absent]
    ELSE c

SetEffect_KeepTimestamp(c, k, v, t) ==
    IF InCache(c, k)
    THEN [c EXCEPT ![k] = Entry(v, c[k][1].timestamp)]
    ELSE [c EXCEPT ![k] = Entry(v, t)]

\* QueryCache.set: the map afterwards
SetEffect(c, k, v, t) == [c EXCEPT ![k] = Entry(v, t)]

SweepEffect_None(c, t) == c

SweepEffect_AtTtl(c, t) ==
    [k \in DOMAIN c |->
        IF InCache(c, k) /\ t - c[k][1].timestamp >= TTL THEN Absent ELSE c[k]]

\* QueryCache.clear_expired: the map afterwards
SweepEffect(c, t) ==
    [k \in DOMAIN c |->
        IF InCache(c, k) /\ t - c[k][1].timestamp > TTL THEN Absent ELSE c[k]]

Get(t) ==
    LET k == GenerateKey(t) IN
    /\ cache' = GetEffect(cache, k, now)
    /\ last' = [op |-> "get", triple |-> t, ret |-> GetResult(cache, k, now)]
    /\ UNCHANGED <<now, written, ledgerVars, pc, callers>>

Set(t, v) ==
    LET k == GenerateKey(t) IN
    /\ cache' = SetEffect(cache, k, v, now)
    /\ written' = [written EXCEPT ![k] = Some([value |-> v, at |-> now])]
    /\ last' = [op |-> "set", triple |-> t, value |-> v,
                replaced |-> IF ~InCache(cache, k) THEN "none"
                             ELSE IF IsExpired(cache[k][1].timestamp, now)
                             THEN "expired" ELSE "live"]
    /\ UNCHANGED <<now, ledgerVars, pc, callers>>

Clear ==
    /\ cache' = [k \in Keys |-> Absent]
    /\ written' = [k \in Keys |-> None]
    /\ last' = [op |-> "clear"]
    /\ UNCHANGED <<now, ledgerVars, pc, callers>>

ClearExpired ==
    /\ cache' = SweepEffect(cache, now)
    /\ last' = [op |-> "clear_expired",
                swept |-> { k \in Keys : InCache(cache, k)
                                          /\ ~InCache(SweepEffect(cache, now), k) }]
    /\ UNCHANGED <<now, written, ledgerVars, pc, callers>>

GetStats ==
    LET swept == SweepEffect(cache, now) IN
    /\ cache' = swept
    /\ last' = [op |-> "get_stats",
                swept |-> Cardinality({k \in Keys : InCache(cache, k) /\ ~InCache(swept, k)}),
                ret |-> [total_entries |-> Cardinality({k \in Keys : InCache(swept, k)}),
                         ttl_seconds |-> TTL]]
    /\ UNCHANGED <<now, written, ledgerVars, pc, callers>>

\* time passes
Tick ==
    /\ now < MaxTime
    /\ now' = now + 1
    /\ last' = [op |-> "tick"]
    /\ UNCHANGED <<cacheVars, ledgerVars, pc, callers>>

\* datetime.now() reads the naive local wall clock, which is set back at the end
\* of daylight-saving time and by a clock adjustment
ClockSetBack ==
    /\ now > 0
    /\ now' = now - 1
    /\ last' = [op |-> "clock_set_back"]
    /\ UNCHANGED <<cacheVars, ledgerVars, pc, callers>>

-----------------------------------------------------------------------------
(* QueryCache used by concurrent callers. The cache takes no lock, so a call  *)
(* runs one dictionary operation at a time and the operations of different   *)
(* callers interleave; an exception ends the call and reaches the caller.     *)

Callers == { 1, 2 }

\* a caller that is in no call
Idle == [pc |-> "idle", key |-> None, entry |-> Absent, t |-> 0, seen |-> {},
         size |-> 0, expired |-> {}, stats |-> FALSE, queries |-> 0, err |-> None]

\* a caller whose call raised
Failed(e) == [Idle EXCEPT !.pc = "failed", !.err = Some(e)]

\* the keys of the dictionary
Present(c) == { k \in Keys : InCache(c, k) }

\* get: if key not in self.cache: return None
CallerGetCheck(c, k) ==
    /\ callers[c].pc \in {"idle", "failed"}
    /\ callers' = [callers EXCEPT ![c] =
                      IF InCache(cache, k)
                      THEN [Idle EXCEPT !.pc = "get_read", !.key = Some(k)]
                      ELSE Idle]
    /\ last' = [op |-> "caller_get_check", caller |-> c]
    /\ UNCHANGED <<now, cacheVars, ledgerVars, pc>>

\* get: entry = self.cache[key], a KeyError when the key has gone
CallerGetRead(c) ==
    /\ callers[c].pc = "get_read"
    /\ LET k == callers[c].key[1] IN
       callers' = [callers EXCEPT ![c] =
                      IF InCache(cache, k)
                      THEN [@ EXCEPT !.pc = "get_test", !.entry = cache[k]]
                      ELSE Failed("KeyError")]
    /\ last' = [op |-> "caller_get_read", caller |-> c]
    /\ UNCHANGED <<now, cacheVars, ledgerVars, pc>>

\* get: the expiry test on the entry read; a live entry's value is returned
CallerGetTest(c) ==
    /\ callers[c].pc = "get_test"
    /\ callers' = [callers EXCEPT ![c] =
                      IF IsExpired(callers[c].entry[1].timestamp, now)
                      THEN [@ EXCEPT !.pc = "get_del"]
                      ELSE Idle]
    /\ last' = [op |-> "caller_get_test", caller |-> c]
    /\ UNCHANGED <<now, cacheVars, ledgerVars, pc>>

\* get: del self.cache[key], a KeyError when the key has gone
CallerGetDel(c) ==
    /\ callers[c].pc = "get_del"
    /\ LET k == callers[c].key[1] IN
       IF InCache(cache, k)
       THEN /\ cache' = [cache EXCEPT ![k] = Absent]
            /\ callers' = [callers EXCEPT ![c] = Idle]
       ELSE /\ callers' = [callers EXCEPT ![c] = Failed("KeyError")]
            /\ UNCHANGED cache
    /\ last' = [op |-> "caller_get_del", caller |-> c]
    /\ UNCHANGED <<now, written, ledgerVars, pc>>

\* set: one dictionary store
CallerSet(c, k, v) ==
    /\ callers[c].pc \in {"idle", "failed"}
    /\ cache' = SetEffect(cache, k, v, now)
    /\ written' = [written EXCEPT ![k] = Some([value |-> v, at |-> now])]
    /\ callers' = [callers EXCEPT ![c] = Idle]
    /\ last' = [op |-> "caller_set", caller |-> c]
    /\ UNCHANGED <<now, ledgerVars, pc>>

\* clear_expired (stats: called by get_stats): now = datetime.now() and the
\* iterator over self.cache.items() is made
CallerSweepStart(c, stats) ==
    /\ callers[c].pc \in {"idle", "failed"}
    /\ callers' = [callers EXCEPT ![c] =
                      [Idle EXCEPT !.pc = "sweep_iter", !.t = now,
                                   !.size = Cardinality(Present(cache)),
                                   !.stats = stats]]
    /\ last' = [op |-> "caller_sweep_start", caller |-> c]
    /\ UNCHANGED <<now, cacheVars, ledgerVars, pc>>

\* clear_expired: one step of the iterator, which raises RuntimeError when the
\* dictionary has changed size since the iterator was made
CallerSweepIter(c) ==
    LET me   == callers[c]
        left == Present(cache) \ me.seen
    IN
    /\ me.pc = "sweep_iter"
    /\ IF Cardinality(Present(cache)) # me.size
       THEN callers' = [callers EXCEPT ![c] = Failed("RuntimeError")]
       ELSE IF left = {}
       THEN callers' = [callers EXCEPT ![c] = [@ EXCEPT !.pc = "sweep_del"]]
       ELSE \E k \in left :
              callers' = [callers EXCEPT ![c] =
                  [@ EXCEPT !.seen = @ \cup {k},
                            !.expired = IF me.t - cache[k][1].timestamp > TTL
                                        THEN @ \cup {k} ELSE @]]
    /\ last' = [op |-> "caller_sweep_iter", caller |-> c]
    /\ UNCHANGED <<now, cacheVars, ledgerVars, pc>>

\* clear_expired: del self.cache[key] for the next expired key, a KeyError when
\* the key has gone; after the last one the call returns or get_stats goes on
CallerSweepDel(c) ==
    LET me == callers[c] IN
    /\ me.pc = "sweep_del"
    /\ IF me.expired = {}
       THEN /\ callers' = [callers EXCEPT ![c] =
                              IF me.stats THEN [Idle EXCEPT !.pc = "stats_len"]
                              ELSE Idle]
            /\ UNCHANGED cache
       ELSE \E k \in me.expired :
              IF InCache(cache, k)
              THEN /\ cache' = [cache EXCEPT ![k] = Absent]
                   /\ callers' = [callers EXCEPT ![c] = [@ EXCEPT !.expired = @ \ {k}]]
              ELSE /\ callers' = [callers EXCEPT ![c] = Failed("KeyError")]
                   /\ UNCHANGED cache
    /\ last' = [op |-> "caller_sweep_del", caller |-> c]
    /\ UNCHANGED <<now, written, ledgerVars, pc>>

\* get_stats: len(self.cache) and the return
CallerStatsLen(c) ==
    /\ callers[c].pc = "stats_len"
    /\ callers' = [callers EXCEPT ![c] = Idle]
    /\ last' = [op |-> "caller_stats_len", caller |-> c,
                ret |-> [total_entries |-> Cardinality(Present(cache)),
                         ttl_seconds |-> TTL]]
    /\ UNCHANGED <<now, cacheVars, ledgerVars, pc>>

-----------------------------------------------------------------------------
(* TokenMonitor *)

\* rows[:10], the rows listed in recent_queries
RecentCap == 10
\* get_report's default limit
DefaultLimit == 100
\* clock ticks per calendar day
TicksPerDay == 2
\* log_query calls that add a row in one run of the model
MaxNew == 2
\* the session counters stop growing here
MaxSession == 2
\* the number of tokens the resolved tokenizer encodes each of the texts used to
TokenizerLen == 3

RECURSIVE LexLE(_, _)
\* SQLite's comparison of two TEXT values (memcmp, then length), on the fields
\* of an ISO-8601 string: <<day>> is a date, <<day, tick>> a date and a time
LexLE(a, b) ==
    IF a = <<>> THEN TRUE
    ELSE IF b = <<>> THEN FALSE
    ELSE IF a[1] # b[1] THEN a[1] < b[1]
    ELSE LexLE(Tail(a), Tail(b))

\* datetime.now().isoformat()
IsoFormat(t) == <<t \div TicksPerDay, t % TicksPerDay>>

ZeroSession == [input_tokens |-> 0, output_tokens |-> 0,
                total_tokens |-> 0, queries |-> 0]

\* the texts handed to log_query, on_llm_start and on_llm_end
LogResponses == { Empty, S_y5 }
InputArgs    == { None, Some(0), Some(2) }
OutputArgs   == { None, Some(0) }
PromptLists  == { <<>>, <<S_y4>>, <<S_ab, S_y4>> }
\* LLMResult.generations: a list of lists of generations (their texts)
Generations  == { <<>>, << <<S_y4>> >>, << <<>>, <<S_y5, S_a>> >> }
ModelNames   == { <<"m">> }
EncLens      == { TokenizerLen }

RECURSIVE Join_NoSpace(_)
Join_NoSpace(texts) ==
    IF texts = <<>> THEN <<>> ELSE texts[1] \o Join_NoSpace(Tail(texts))

RECURSIVE Join(_)
\* " ".join(texts)
Join(texts) ==
    IF texts = <<>> THEN <<>>
    ELSE IF Len(texts) = 1 THEN texts[1]
    ELSE texts[1] \o <<" ">> \o Join(Tail(texts))

RECURSIVE FirstTexts(_)
\* [gen[0].text for gen in response.generations if gen]
FirstTexts(gens) ==
    IF gens = <<>> THEN <<>>
    ELSE IF gens[1] # <<>> THEN <<gens[1][1]>> \o FirstTexts(Tail(gens))
    ELSE FirstTexts(Tail(gens))

CountTokens_RoundUp(tok, text, enc) ==
    IF tok = None THEN (Len(text) + 3) \div 4 ELSE enc

\* TokenMonitor.count_tokens; enc is what len(self.tokenizer.encode(text)) gives
CountTokens(tok, text, enc) ==
    IF tok = None THEN Len(text) \div 4 ELSE enc

\* the longest text handed to count_tokens on its own
MaxLen == 6
\* every text of up to MaxLen characters over two characters
CountTexts == UNION { [1..n -> {"y", " "}] : n \in 0..MaxLen }

\* a call of count_tokens
CountTokensCall(text, enc) ==
    /\ last' = [op |-> "count_tokens", text |-> text,
                ret |-> CountTokens(tokenizer, text, enc)]
    /\ UNCHANGED <<now, cacheVars, ledgerVars, pc, callers>>

TotalTokens_InputTwice(input_tokens, output_tokens) == input_tokens + input_tokens

\* total_tokens = input_tokens + output_tokens
TotalTokens(input_tokens, output_tokens) == input_tokens + output_tokens

\* the row log_query inserts; AUTOINCREMENT gives the next id
NewRow(rs, t, user_query, response_text, input_tokens, output_tokens, model) ==
    [id              |-> Len(rs) + 1,
     timestamp       |-> IsoFormat(t),
     user_query      |-> user_query,
     response_length |-> Len(response_text),
     input_tokens    |-> input_tokens,
     output_tokens   |-> output_tokens,
     total_tokens    |-> TotalTokens(input_tokens, output_tokens),
     model_name      |-> model]

InsertRow_Replace(rs, row) ==
    IF rs = <<>> THEN <<row>> ELSE [rs EXCEPT ![Len(rs)] = row]

\* INSERT INTO token_usage ... ; commit
InsertRow(rs, row) == Append(rs, row)

\* a store left by earlier runs: RecentCap rows, one a day, before this run
PriorStore ==
    [i \in 1..RecentCap |->
        [id              |-> i,
         timestamp       |-> IsoFormat((i - 1 - RecentCap) * TicksPerDay),
         user_query      |-> S_a,
         response_length |-> 5,
         input_tokens    |-> 0,
         output_tokens   |-> 1,
         total_tokens    |-> 1,
         model_name      |-> <<>>]]

\* the rows this run has added
NewCount(rs) == Cardinality({ i \in 1..Len(rs) : rs[i].timestamp[1] >= 0 })

InitDatabase_Recreate(rs) == <<>>

\* TokenMonitor._init_database: CREATE TABLE IF NOT EXISTS, the rows afterwards
InitDatabase(rs) == rs

\* TokenMonitor.__init__ on a store that may hold rows
NewMonitor(name) ==
    /\ session' = ZeroSession
    /\ model_name' = name
    /\ tokenizer' = None
    /\ records' = InitDatabase(records)
    /\ last' = [op |-> "init_monitor"]
    /\ UNCHANGED <<now, cacheVars, nlogged, pc, callers>>

TokenizerOnFailure_Keep(tok) == tok

\* except Exception: the warning is printed and self.tokenizer = None
TokenizerOnFailure(tok) == None

\* TokenMonitor.set_tokenizer; resolved: AutoTokenizer.from_pretrained succeeds
SetTokenizer(name, resolved) ==
    /\ tokenizer' = IF resolved THEN Some(name) ELSE TokenizerOnFailure(tokenizer)
    /\ model_name' = IF resolved THEN name ELSE model_name
    /\ last' = [op |-> "set_tokenizer", resolved |-> resolved]
    /\ UNCHANGED <<now, cacheVars, records, session, nlogged, pc, callers>>

\* TokenMonitor.on_llm_start: the counters afterwards
OnLlmStartEffect(s, tok, prompts, enc) ==
    IF prompts # <<>>
    THEN [s EXCEPT !.input_tokens = @ + CountTokens(tok, Join(prompts), enc)]
    ELSE s

\* TokenMonitor.on_llm_end: the counters afterwards
OnLlmEndEffect(s, tok, gens, enc) ==
    IF gens # <<>>
    THEN LET out == s.output_tokens + CountTokens(tok, Join(FirstTexts(gens)), enc) IN
         [s EXCEPT !.output_tokens = out,
                   !.total_tokens = s.input_tokens + out]
    ELSE s

OnLlmStart(prompts, enc) ==
    /\ session.input_tokens < MaxSession
    /\ session' = OnLlmStartEffect(session, tokenizer, prompts, enc)
    /\ last' = [op |-> "on_llm_start", prompts |-> prompts]
    /\ UNCHANGED <<now, cacheVars, records, model_name, tokenizer, nlogged, pc, callers>>

OnLlmEnd(gens, enc) ==
    /\ session.output_tokens < MaxSession
    /\ session' = OnLlmEndEffect(session, tokenizer, gens, enc)
    /\ last' = [op |-> "on_llm_end", generations |-> gens]
    /\ UNCHANGED <<now, cacheVars, records, model_name, tokenizer, nlogged, pc, callers>>

ResolveCount_OrCounted(arg, counted) ==
    IF arg = None \/ arg[1] = 0 THEN counted ELSE arg[1]

\* if input_tokens is None: input_tokens = self.count_tokens(user_query)
ResolveCount(arg, counted) == IF arg = None THEN counted ELSE arg[1]

LogFailureEffect_Counted(s) == [s EXCEPT !.queries = @ + 1]

\* log_query when a sqlite3 call raises: the counters afterwards (the increment
\* of queries, after conn.close(), is not reached)
LogFailureEffect(s) == s

\* TokenMonitor.log_query; stored: the sqlite3 calls succeed, otherwise they raise
LogQuery(user_query, response_text, input_arg, output_arg, enc, stored) ==
    LET input_tokens  == ResolveCount(input_arg,
                                      CountTokens(tokenizer, user_query, enc))
        output_tokens == ResolveCount(output_arg,
                                      CountTokens(tokenizer, response_text, enc))
        row == NewRow(records, now, user_query, response_text,
                      input_tokens, output_tokens, model_name)
    IN
    /\ NewCount(records) < MaxNew
    /\ IF stored
       THEN /\ records' = InsertRow(records, row)
            /\ session' = [session EXCEPT !.queries = @ + 1]
            /\ nlogged' = nlogged + 1
       ELSE /\ session' = LogFailureEffect(session)
            /\ UNCHANGED <<records, nlogged>>
    /\ last' = [op |-> "log_query", ok |-> stored, user_query |-> user_query,
                response_text |-> response_text,
                input_arg |-> input_arg, output_arg |-> output_arg]
    /\ UNCHANGED <<now, cacheVars, model_name, tokenizer, pc, callers>>

\* log_query by concurrent callers of one monitor. Each call has its own
\* connection and SQLite runs the INSERT transactions one after the other;
\* stored: the write succeeds, otherwise (the store stays locked beyond the
\* timeout, or cannot be written) the call raises
LedgerInsert(c, stored) ==
    LET row == NewRow(records, now, S_a, S_y5, 2, 0, model_name) IN
    /\ callers[c].pc \in {"idle", "failed"}
    /\ NewCount(records) < MaxNew
    /\ IF stored
       THEN /\ records' = InsertRow(records, row)
            /\ callers' = [callers EXCEPT ![c] = [Idle EXCEPT !.pc = "log_load"]]
       ELSE /\ callers' = [callers EXCEPT ![c] = Failed("OperationalError")]
            /\ UNCHANGED records
    /\ last' = [op |-> "ledger_insert", caller |-> c, ok |-> stored]
    /\ UNCHANGED <<now, cacheVars, session, model_name, tokenizer, nlogged, pc>>

\* self.current_session_tokens["queries"] += 1 is a read, an addition and a
\* store, with no lock held: the read
LedgerLoad(c) ==
    /\ callers[c].pc = "log_load"
    /\ callers' = [callers EXCEPT ![c] =
                      [@ EXCEPT !.pc = "log_store", !.queries = session.queries]]
    /\ last' = [op |-> "ledger_load", caller |-> c]
    /\ UNCHANGED <<now, cacheVars, ledgerVars, pc>>

\* the store of the value read plus one, and the return of log_query
LedgerStore(c) ==
    /\ callers[c].pc = "log_store"
    /\ session' = [session EXCEPT !.queries = callers[c].queries + 1]
    /\ nlogged' = nlogged + 1
    /\ callers' = [callers EXCEPT ![c] = Idle]
    /\ last' = [op |-> "ledger_store", caller |-> c]
    /\ UNCHANGED <<now, cacheVars, records, model_name, tokenizer, pc>>

\* TokenMonitor.get_session_stats: the snapshot returned
SessionStats(s) ==
    [input_tokens |-> s.input_tokens, output_tokens |-> s.output_tokens,
     total_tokens |-> s.total_tokens, queries |-> s.queries]

GetSessionStats ==
    /\ last' = [op |-> "get_session_stats", ret |-> SessionStats(session)]
    /\ UNCHANGED <<now, cacheVars, ledgerVars, pc, callers>>

ResetCounters_KeepQueries(s) == [ZeroSession EXCEPT !.queries = s.queries]

\* TokenMonitor.reset_session: the counters afterwards
ResetCounters(s) == ZeroSession

ResetSession ==
    /\ session' = ResetCounters(session)
    /\ last' = [op |-> "reset_session", before |-> session]
    /\ UNCHANGED <<now, cacheVars, records, model_name, tokenizer, nlogged, pc, callers>>

\* the arguments handed to get_report
Limits     == { -1, 0, 2, DefaultLimit }
StartDates == { None, Some(<<0, 1>>) }
EndDates   == { None, Some(<<1>>) }

\* the date bounds of the reports under check: None, the empty string, a date
\* alone and a full timestamp
FilterStarts == { None, Some(<<>>), Some(<<0>>), Some(<<0, 1>>) }
FilterEnds   == { None, Some(<<>>), Some(<<1>>), Some(<<0, 1>>) }

Matches_Exclusive(row, start_date, end_date) ==
    /\ Truthy(start_date) =>
          (start_date[1] # row.timestamp /\ LexLE(start_date[1], row.timestamp))
    /\ Truthy(end_date) =>
          (end_date[1] # row.timestamp /\ LexLE(row.timestamp, end_date[1]))

\* the WHERE clause get_report builds: a bound is applied when it is truthy
Matches(row, start_date, end_date) ==
    /\ Truthy(start_date) => LexLE(start_date[1], row.timestamp)
    /\ Truthy(end_date) => LexLE(row.timestamp, end_date[1])

\* the positions in the table of the rows the WHERE clause selects
MatchSet(rs, start_date, end_date) ==
    { i \in 1..Len(rs) : Matches(rs[i], start_date, end_date) }

RECURSIVE Orders(_, _)
\* ORDER BY timestamp DESC: every order of the rows at positions S that the
\* query may produce; SQL leaves the order of rows with equal timestamps open
Orders(rs, S) ==
    IF S = {} THEN { <<>> }
    ELSE LET top == { i \in S : \A j \in S : LexLE(rs[j].timestamp, rs[i].timestamp) }
         IN UNION { { <<i>> \o o : o \in Orders(rs, S \ {i}) } : i \in top }

Limit_Ignored(order, limit) == order

\* LIMIT ?: SQLite applies no limit when the value is negative
Limit(order, limit) ==
    IF limit < 0 THEN order ELSE SubSeq(order, 1, Min(limit, Len(order)))

RECURSIVE SumOf(_, _)
\* sum(row[f] for row in rows)
SumOf(rows, f) ==
    IF rows = <<>> THEN 0 ELSE rows[1][f] + SumOf(Tail(rows), f)

\* total_tokens / total_queries if total_queries > 0 else 0, as a fraction
Average(total_tokens, total_queries) ==
    IF total_queries > 0
    THEN [num |-> total_tokens, den |-> total_queries]
    ELSE [num |-> 0, den |-> 1]

Recent_All(rows) ==
    [i \in 1..Len(rows) |->
        [timestamp |-> rows[i].timestamp, query |-> rows[i].user_query,
         input_tokens |-> rows[i].input_tokens,
         output_tokens |-> rows[i].output_tokens,
         total_tokens |-> rows[i].total_tokens]]

\* the recent_queries list: rows[:10]
Recent(rows) ==
    [i \in 1..Min(RecentCap, Len(rows)) |->
        [timestamp |-> rows[i].timestamp, query |-> rows[i].user_query,
         input_tokens |-> rows[i].input_tokens,
         output_tokens |-> rows[i].output_tokens,
         total_tokens |-> rows[i].total_tokens]]

\* the dictionary get_report returns for the rows fetched
Report(rows) ==
    [total_queries            |-> Len(rows),
     total_input_tokens       |-> SumOf(rows, "input_tokens"),
     total_output_tokens      |-> SumOf(rows, "output_tokens"),
     total_tokens             |-> SumOf(rows, "total_tokens"),
     average_tokens_per_query |-> Average(SumOf(rows, "total_tokens"), Len(rows)),
     recent_queries           |-> Recent(rows)]

\* TokenMonitor.get_report; rows (history) are the rows cursor.fetchall() gave
GetReport(limit, start_date, end_date) ==
    \E order \in Orders(records, MatchSet(records, start_date, end_date)) :
        LET fetched == Limit(order, limit)
            rows    == [i \in 1..Len(fetched) |-> records[fetched[i]]]
        IN
        /\ last' = [op |-> "get_report", limit |-> limit,
                    start_date |-> start_date, end_date |-> end_date,
                    rows |-> rows, ret |-> Report(rows)]
        /\ UNCHANGED <<now, cacheVars, ledgerVars, pc, callers>>

-----------------------------------------------------------------------------
(* run_agent.main: the interactive loop *)

\* REPO_OWNER and REPO_NAME of the run
RepoOwner == S_c
RepoName  == S_d

S_q == <<"q">>
\* ['sair', 'exit', 'quit', 'q']
ExitWords == { <<"s", "a", "i", "r">>, <<"e", "x", "i", "t">>,
               <<"q", "u", "i", "t">>, S_q }

\* what input().strip() gives, and what agent.invoke answers
LoopInputs == { Empty, S_q, S_a, S_ab }
Answers    == { Empty, S_y4 }
\* agent.invoke: raises, is interrupted (Ctrl-C), or returns an answer
Outcomes   == { "raise", "interrupt", "answer" }

\* the prompt the agent sends to the model for a question
PromptFor(query) == << S_y4 \o query >>

\* if cached_response: the branch that serves the cached answer
IsHit_NotNone(cached) == cached # None

IsHit(cached) == Truthy(cached)

CacheOnFailure_StoreError(c, k, t) == SetEffect(c, k, S_x, t)

\* except Exception as e: the handler prints and leaves the cache alone
CacheOnFailure(c, k, t) == c

\* one pass of the while-loop body. llm: the model was called (and the callbacks
\* ran) before agent.invoke ended; dt: the ticks agent.invoke took
LoopIteration(query, outcome, answer, llm, dt, enc, stored) ==
    LET k       == GenerateKey(<<query, RepoOwner, RepoName>>)
        cached  == GetResult(cache, k, now)
        probed  == GetEffect(cache, k, now)
        evicted == probed # cache
        s1      == IF llm
                   THEN OnLlmEndEffect(
                            OnLlmStartEffect(session, tokenizer, PromptFor(query), enc),
                            tokenizer, << <<answer>> >>, enc)
                   ELSE session
        base    == [op |-> "iteration", query |-> query]
    IN
    /\ pc = "loop"
    /\ UNCHANGED callers
    /\ IF query = Empty
       THEN /\ last' = base @@ [path |-> "empty", evicted |-> FALSE,
                                invoked |-> FALSE, shown |-> None]
            /\ UNCHANGED <<now, cacheVars, ledgerVars, pc>>
       ELSE IF query \in ExitWords
       THEN /\ pc' = "done"
            /\ last' = base @@ [path |-> "exit", evicted |-> FALSE,
                                invoked |-> FALSE, shown |-> None]
            /\ UNCHANGED <<now, cacheVars, ledgerVars>>
       ELSE IF IsHit(cached)
       THEN /\ cache' = probed
            /\ last' = base @@ [path |-> "hit", evicted |-> evicted,
                                invoked |-> FALSE, shown |-> cached]
            /\ UNCHANGED <<now, written, ledgerVars, pc>>
       ELSE /\ now + dt <= MaxTime
            /\ llm => session.input_tokens < MaxSession /\ session.output_tokens < MaxSession
            /\ now' = now + dt
            /\ UNCHANGED <<model_name, tokenizer>>
            /\ CASE outcome = "interrupt" ->
                      /\ cache' = probed
                      /\ session' = s1
                      /\ pc' = "done"
                      /\ last' = base @@ [path |-> "interrupted", evicted |-> evicted,
                                          invoked |-> TRUE, shown |-> None]
                      /\ UNCHANGED <<written, records, nlogged>>
                 [] outcome = "raise" ->
                      /\ cache' = CacheOnFailure(probed, k, now + dt)
                      /\ session' = s1
                      /\ last' = base @@ [path |-> "failed", evicted |-> evicted,
                                          invoked |-> TRUE, shown |-> None]
                      /\ UNCHANGED <<written, records, nlogged, pc>>
                 [] outcome = "answer" ->
                      LET row == NewRow(records, now + dt, query, answer,
                                        CountTokens(tokenizer, query, enc),
                                        CountTokens(tokenizer, answer, enc), model_name)
                      IN
                      /\ llm
                      /\ NewCount(records) < MaxNew
                      /\ cache' = SetEffect(probed, k, answer, now + dt)
                      /\ written' = [written EXCEPT
                                       ![k] = Some([value |-> answer, at |-> now + dt])]
                      /\ IF stored
                         THEN /\ records' = InsertRow(records, row)
                              /\ session' = [s1 EXCEPT !.queries = @ + 1]
                              /\ nlogged' = nlogged + 1
                         ELSE /\ session' = s1
                              /\ UNCHANGED <<records, nlogged>>
                      /\ last' = base @@ [path |-> IF stored THEN "answered"
                                                   ELSE "answered_unlogged",
                                          evicted |-> evicted,
                                          invoked |-> TRUE, shown |-> Some(answer)]
                      /\ UNCHANGED pc

\* Ctrl-C or end of input at the prompt
LoopInterrupt ==
    /\ pc = "loop"
    /\ pc' = "done"
    /\ last' = [op |-> "interrupt"]
    /\ UNCHANGED <<now, cacheVars, ledgerVars, callers>>

-----------------------------------------------------------------------------
(* Specifications *)

Init ==
    /\ now = 0
    /\ cache = [k \in Keys |-> Absent]
    /\ written = [k \in Keys |-> None]
    /\ records = <<>>
    /\ session = ZeroSession
    /\ model_name = <<>>
    /\ tokenizer = None
    /\ nlogged = 0
    /\ pc = "loop"
    /\ callers = [c \in Callers |-> Idle]
    /\ last = [op |-> "init"]

CacheNext ==
    \/ \E t \in Triples, v \in Values : Set(t, v)
    \/ \E t \in Triples : Get(t)
    \/ Clear
    \/ ClearExpired
    \/ GetStats
    \/ Tick

SpecCache == Init /\ [][CacheNext]_vars

\* every operation of one TokenMonitor
MonitorNext ==
    \/ \E p \in PromptLists, enc \in EncLens : OnLlmStart(p, enc)
    \/ \E g \in Generations, enc \in EncLens : OnLlmEnd(g, enc)
    \/ \E enc \in EncLens, stored \in BOOLEAN :
          LogQuery(S_y4, S_y5, None, None, enc, stored)
    \/ GetReport(DefaultLimit, None, None)
    \/ GetSessionStats
    \/ ResetSession
    \/ \E n \in ModelNames, resolved \in BOOLEAN : SetTokenizer(n, resolved)
    \/ \E n \in ModelNames : NewMonitor(n)

SpecMonitor == Init /\ [][MonitorNext]_vars

\* log_query under every shape of its arguments
LogNext ==
    \/ \E r \in LogResponses, i \in InputArgs, o \in OutputArgs,
          enc \in EncLens, stored \in BOOLEAN : LogQuery(S_y4, r, i, o, enc, stored)
    \/ \E n \in ModelNames, resolved \in BOOLEAN : SetTokenizer(n, resolved)
    \/ \E n \in ModelNames : NewMonitor(n)

SpecLog == Init /\ [][LogNext]_vars

\* log_query on a monitor whose callbacks have counted tokens
LogSessionNext ==
    \/ \E i \in {None, Some(0)}, o \in {None, Some(0)}, enc \in EncLens :
          LogQuery(S_y4, S_y5, i, o, enc, TRUE)
    \/ \E enc \in EncLens : OnLlmStart(<<S_y4>>, enc)
    \/ \E enc \in EncLens : OnLlmEnd(<< <<S_y4>> >>, enc)
    \/ \E n \in ModelNames : SetTokenizer(n, TRUE)

SpecLogSession == Init /\ [][LogSessionNext]_vars

\* the reports, on a store that is empty or holds the rows of earlier runs
InitReport ==
    /\ now = 0
    /\ cache = [k \in Keys |-> Absent]
    /\ written = [k \in Keys |-> None]
    /\ records \in { <<>>, PriorStore }
    /\ session = ZeroSession
    /\ model_name = <<>>
    /\ tokenizer = None
    /\ nlogged = Len(records)
    /\ pc = "loop"
    /\ callers = [c \in Callers |-> Idle]
    /\ last = [op |-> "init"]

ReportNext ==
    \/ \E enc \in EncLens : LogQuery(S_a, S_y5, Some(2), Some(0), enc, TRUE)
    \/ \E l \in Limits, sd \in StartDates, ed \in EndDates : GetReport(l, sd, ed)
    \/ Tick

SpecReport == InitReport /\ [][ReportNext]_vars

\* main up to the loop: the monitor is built, set_tokenizer has run, the cache is new
InitLoop ==
    /\ now = 0
    /\ cache = [k \in Keys |-> Absent]
    /\ written = [k \in Keys |-> None]
    /\ records = <<>>
    /\ session = ZeroSession
    /\ model_name \in ModelNames
    /\ tokenizer \in { None, Some(model_name) }
    /\ nlogged = 0
    /\ pc = "loop"
    /\ callers = [c \in Callers |-> Idle]
    /\ last = [op |-> "init"]

\* what can happen in one pass: an answer comes after a model call, and only an
\* answer is cached and logged
Passes ==
    { [outcome |-> "raise", answer |-> Empty, llm |-> l, dt |-> d, stored |-> FALSE] :
        l \in BOOLEAN, d \in 0..1 }
    \cup
    { [outcome |-> "interrupt", answer |-> Empty, llm |-> FALSE, dt |-> 0,
       stored |-> FALSE] }
    \cup
    { [outcome |-> "answer", answer |-> a, llm |-> TRUE, dt |-> d, stored |-> st] :
        a \in Answers, d \in 0..1, st \in BOOLEAN }

LoopNext ==
    \/ \E q \in LoopInputs, p \in Passes, enc \in EncLens :
          LoopIteration(q, p.outcome, p.answer, p.llm, p.dt, enc, p.stored)
    \/ LoopInterrupt
    \/ Tick

SpecLoop == InitLoop /\ [][LoopNext]_vars

\* while True: after each pass the loop reads the next input and runs its body
\* again, until an exit word or an interrupt ends it
LoopPass ==
    \E q \in LoopInputs, p \in Passes, enc \in EncLens :
        LoopIteration(q, p.outcome, p.answer, p.llm, p.dt, enc, p.stored)

SpecLoopLive == InitLoop /\ [][LoopNext]_vars /\ WF_vars(LoopPass)

\* get, set, clear_expired and get_stats issued by concurrent callers
CallersNext ==
    \/ \E c \in Callers, k \in Keys : CallerGetCheck(c, k)
    \/ \E c \in Callers : CallerGetRead(c)
    \/ \E c \in Callers : CallerGetTest(c)
    \/ \E c \in Callers : CallerGetDel(c)
    \/ \E c \in Callers, k \in Keys : CallerSet(c, k, S_x)
    \/ \E c \in Callers, stats \in BOOLEAN : CallerSweepStart(c, stats)
    \/ \E c \in Callers : CallerSweepIter(c)
    \/ \E c \in Callers : CallerSweepDel(c)
    \/ \E c \in Callers : CallerStatsLen(c)
    \/ Tick

SpecCallers == Init /\ [][CallersNext]_vars

\* log_query issued by concurrent callers
LedgerCallersNext ==
    \/ \E c \in Callers, stored \in BOOLEAN : LedgerInsert(c, stored)
    \/ \E c \in Callers : LedgerLoad(c)
    \/ \E c \in Callers : LedgerStore(c)
    \/ Tick

SpecLedgerCallers == Init /\ [][LedgerCallersNext]_vars

\* the date filter of get_report under every form of its bounds
FilterNext ==
    \/ \E enc \in EncLens : LogQuery(S_a, S_y5, Some(2), Some(0), enc, TRUE)
    \/ \E sd \in FilterStarts, ed \in FilterEnds : GetReport(DefaultLimit, sd, ed)
    \/ Tick

SpecFilter == InitReport /\ [][FilterNext]_vars

\* count_tokens on every text, with and without a tokenizer
CountNext ==
    \/ \E text \in CountTexts, enc \in EncLens : CountTokensCall(text, enc)
    \/ \E n \in ModelNames, resolved \in BOOLEAN : SetTokenizer(n, resolved)

SpecCount == Init /\ [][CountNext]_vars

\* the ledger on a wall clock that can be set back
WallClockNext ==
    \/ \E enc \in EncLens : LogQuery(S_a, S_y5, Some(2), Some(0), enc, TRUE)
    \/ GetReport(DefaultLimit, None, None)
    \/ Tick
    \/ ClockSetBack

SpecWallClock == Init /\ [][WallClockNext]_vars

\* every operation of the three components together
Next == CacheNext \/ MonitorNext \/ LogNext \/ ReportNext \/ LoopNext
            \/ WallClockNext \/ CountNext \/ FilterNext \/ CallersNext
            \/ LogSessionNext \/ LedgerCallersNext

Spec == Init /\ [][Next]_vars

-----------------------------------------------------------------------------
(* Properties *)

\* C1: a get on a key that was set, with no later set on that key and no clear()
\* since, returns exactly the value set if and only if the time elapsed since
\* that set is <= ttl, and returns None whenever the elapsed time is > ttl.
C1_CacheTtl ==
    last.op = "get" =>
        LET w == written[GenerateKey(last.triple)] IN
        w # None =>
            /\ (last.ret = Some(w[1].value)) <=> (now - w[1].at <= TTL)
            /\ (now - w[1].at > TTL) => (last.ret = None)

\* a get exactly ttl after the set returns the value
C1_Witness ==
    /\ last.op = "get"
    /\ written[GenerateKey(last.triple)] # None
    /\ now - written[GenerateKey(last.triple)][1].at = TTL
    /\ last.ret = Some(written[GenerateKey(last.triple)][1].value)

\* C2: distinct (query, owner, repo) triples derive distinct keys, so a set for
\* one triple never changes what get returns for a different triple.
C2_DistinctTriplesDistinctKeys ==
    [][last'.op = "set" =>
         \A t \in Triples : t # last'.triple =>
            /\ GenerateKey(t) # GenerateKey(last'.triple)
            /\ GetResult(cache', GenerateKey(t), now')
                 = GetResult(cache, GenerateKey(t), now)]_vars

\* C3: the store holds exactly one row per log_query call that returned; a
\* log_query that returns appends one row and leaves the earlier rows as they
\* were, and no other operation adds, changes or deletes a row.
C3_AppendOnly ==
    /\ [](Len(records) = nlogged)
    /\ [][IF last'.op = "log_query" /\ last'.ok
          THEN /\ Len(records') = Len(records) + 1
               /\ SubSeq(records', 1, Len(records)) = records
          ELSE records' = records]_vars

\* the second log_query has returned
C3_Witness ==
    /\ last.op = "log_query"
    /\ last.ok
    /\ nlogged = 2
    /\ Len(records) = 2

\* C4: every stored row has total_tokens = input_tokens + output_tokens, with
\* the counts supplied by the caller or computed by count_tokens.
C4_TotalConsistent ==
    \A i \in 1..Len(records) :
        records[i].total_tokens = records[i].input_tokens + records[i].output_tokens

\* a row with a computed input count and a supplied output count, after another
C4_Witness ==
    /\ last.op = "log_query"
    /\ last.ok
    /\ last.input_arg = None
    /\ last.output_arg # None
    /\ Len(records) = 2
    /\ records[2].input_tokens > 0

\* C5: in the loop, whenever the cache holds a non-expired entry for the query,
\* the cached answer is shown, agent.invoke is not called, no row is appended
\* and the cache is not rewritten.
C5_CacheHitsAreFree ==
    [][(last'.op = "iteration" /\ last'.query \notin ExitWords \cup {Empty}) =>
         LET k == GenerateKey(<<last'.query, RepoOwner, RepoName>>) IN
         (InCache(cache, k) /\ ~(now - cache[k][1].timestamp > TTL)) =>
            /\ last'.shown = Some(cache[k][1].value)
            /\ ~last'.invoked
            /\ records' = records
            /\ cache' = cache]_vars

\* C6 as stated: when agent.invoke fails the cache map and the rows are
\* exactly as before the iteration.
C6_FailureLeavesAllAsBefore ==
    [][(last'.op = "iteration" /\ last'.path = "failed") =>
         /\ cache' = cache
         /\ records' = records]_vars

\* C6: when agent.invoke fails on a miss, no cache entry is created or
\* overwritten and no row is appended: the rows are as before, and the map is
\* as before except that the probed key's entry is gone if it had expired.
C6_NoNegativeCaching ==
    [][(last'.op = "iteration" /\ last'.path = "failed") =>
         LET k == GenerateKey(<<last'.query, RepoOwner, RepoName>>) IN
         /\ records' = records
         /\ \A j \in Keys :
              \/ cache'[j] = cache[j]
              \/ /\ j = k
                 /\ cache'[j] = Absent
                 /\ InCache(cache, k)
                 /\ now - cache[k][1].timestamp > TTL]_vars

\* agent.invoke failed on a miss that found, and removed, an expired entry
C6_Witness ==
    /\ last.op = "iteration"
    /\ last.path = "failed"
    /\ last.evicted

\* C7: after reset_session, get_session_stats gives 0 for all four counters,
\* whatever happened before; reset_session leaves every row as it was.
C7_ResetSession ==
    /\ [](last.op = "reset_session" =>
            LET st == SessionStats(session) IN
            /\ st.input_tokens = 0
            /\ st.output_tokens = 0
            /\ st.total_tokens = 0
            /\ st.queries = 0)
    /\ [][last'.op = "reset_session" => records' = records]_vars

\* a reset after callbacks and a logged query had made every counter positive
C7_Witness ==
    /\ last.op = "reset_session"
    /\ last.before.input_tokens > 0
    /\ last.before.output_tokens > 0
    /\ last.before.total_tokens > 0
    /\ last.before.queries > 0
    /\ Len(records) > 0

\* C8 as stated: for every integer limit, total_queries <= limit, and the
\* average is 0 when total_queries is 0.
C8_WindowAnyLimit ==
    last.op = "get_report" =>
        /\ last.ret.total_queries <= last.limit
        /\ (last.ret.total_queries = 0) => (last.ret.average_tokens_per_query.num = 0)

\* C8: for every limit >= 0, total_queries <= limit; for a negative limit no
\* limit applies and total_queries is the number of rows the date filter
\* selects; the average is 0 when total_queries is 0.
C8_WindowHonesty ==
    last.op = "get_report" =>
        LET m == Cardinality(MatchSet(records, last.start_date, last.end_date)) IN
        /\ (last.limit >= 0) => (last.ret.total_queries <= last.limit)
        /\ (last.limit < 0) => (last.ret.total_queries = m)
        /\ (last.ret.total_queries = 0) => (last.ret.average_tokens_per_query.num = 0)

\* a report whose limit cut the rows selected
C8_Witness ==
    /\ last.op = "get_report"
    /\ last.limit = 2
    /\ last.ret.total_queries = 2
    /\ Cardinality(MatchSet(records, last.start_date, last.end_date)) > 2

RECURSIVE SumAt(_, _, _, _)
\* the sum of field f over the rows of rs at the positions in W, up to position n
SumAt(rs, W, f, n) ==
    IF n = 0 THEN 0
    ELSE (IF n \in W THEN rs[n][f] ELSE 0) + SumAt(rs, W, f, n - 1)

\* the report just returned aggregates n of the rows the date filter selects,
\* none of them older (by timestamp) than a selected row left out, and lists
\* the first min(10, total_queries) of them
ReportWindowIs(n) ==
    LET M    == MatchSet(records, last.start_date, last.end_date)
        rows == last.rows
        W    == { rows[i].id : i \in 1..Len(rows) }
        ret  == last.ret
    IN
    /\ Len(rows) = n
    /\ Cardinality(W) = n
    /\ W \subseteq M
    /\ \A i \in 1..Len(rows) : rows[i] = records[rows[i].id]
    /\ \A i \in W, j \in M \ W : LexLE(records[j].timestamp, records[i].timestamp)
    /\ ret.total_queries = n
    /\ ret.total_input_tokens = SumAt(records, W, "input_tokens", Len(records))
    /\ ret.total_output_tokens = SumAt(records, W, "output_tokens", Len(records))
    /\ ret.total_tokens = SumAt(records, W, "total_tokens", Len(records))
    /\ Len(ret.recent_queries) = Min(RecentCap, ret.total_queries)
    /\ \A i \in 1..Len(ret.recent_queries) :
          /\ ret.recent_queries[i].timestamp = rows[i].timestamp
          /\ ret.recent_queries[i].query = rows[i].user_query
          /\ ret.recent_queries[i].total_tokens = rows[i].total_tokens

\* C9 as stated: the aggregates are over the newest min(limit, m) of the m rows
\* the date filter selects, and recent_queries holds min(10, total_queries) rows.
C9_WindowMinLimit ==
    last.op = "get_report" =>
        ReportWindowIs(Min(last.limit,
                           Cardinality(MatchSet(records, last.start_date, last.end_date))))

\* C9: with limit >= 0 the aggregates are over the newest (by timestamp)
\* min(limit, m) of the m rows the date filter selects, with a negative limit
\* over all m of them; recent_queries holds min(10, total_queries) of those rows.
C9_AggregationWindow ==
    last.op = "get_report" =>
        LET m == Cardinality(MatchSet(records, last.start_date, last.end_date)) IN
        ReportWindowIs(IF last.limit < 0 THEN m ELSE Min(last.limit, m))

\* a report over more rows than recent_queries lists
C9_Witness ==
    /\ last.op = "get_report"
    /\ last.limit = DefaultLimit
    /\ last.ret.total_queries > RecentCap
    /\ Len(last.ret.recent_queries) = RecentCap

\* C10: the rows of a report are in reverse order of their log_query calls (a
\* row appended later comes earlier), and when the limit cuts the rows selected
\* the rows kept are the ones appended last.
C10_NewestFirstByInsertion ==
    last.op = "get_report" =>
        LET M    == MatchSet(records, last.start_date, last.end_date)
            rows == last.rows
            W    == { rows[i].id : i \in 1..Len(rows) }
        IN
        /\ \A i, j \in 1..Len(rows) : i < j => rows[i].id > rows[j].id
        /\ \A i \in W, j \in M \ W : i > j

\* C11: for any two rows, the one appended first (smaller id) has a timestamp
\* less than or equal to the other's, in every reachable state of the ledger.
C11_TimestampsMonotonic ==
    \A i, j \in 1..Len(records) :
        records[i].id < records[j].id =>
            LexLE(records[i].timestamp, records[j].timestamp)

\* C12: get_stats first removes every expired entry, then reports as
\* total_entries the number of entries whose age is <= ttl, with the configured
\* ttl_seconds; the entries that are not expired stay as they were, and once
\* every entry has aged past ttl the count is 0 and the map is empty.
C12_StatsSweepFirst ==
    [][last'.op = "get_stats" =>
         LET live == { k \in Keys : InCache(cache, k)
                                     /\ now - cache[k][1].timestamp <= TTL }
         IN
         /\ last'.ret.total_entries = Cardinality(live)
         /\ last'.ret.ttl_seconds = TTL
         /\ \A k \in Keys : cache'[k] = IF k \in live THEN cache[k] ELSE Absent
         /\ (live = {}) =>
               /\ last'.ret.total_entries = 0
               /\ \A k \in Keys : ~InCache(cache', k)]_vars

\* get_stats found every key set and aged past ttl, and reports 0
C12_Witness ==
    /\ last.op = "get_stats"
    /\ last.swept = Cardinality(Keys)
    /\ last.ret.total_entries = 0
    /\ \A k \in Keys : written[k] # None /\ now - written[k][1].at > TTL

\* C13: every on_llm_end, for every response including one with no
\* generations, adds count_tokens of the space-joined generated texts to the
\* session's output_tokens and leaves total_tokens = input_tokens + output_tokens.
C13_EveryResponseRecomputesTotal ==
    [][last'.op = "on_llm_end" =>
         /\ session'.output_tokens =
               session.output_tokens
                 + CountTokens(tokenizer, Join(FirstTexts(last'.generations)), TokenizerLen)
         /\ session'.total_tokens = session'.input_tokens + session'.output_tokens]_vars

\* C14: constructing a TokenMonitor on a store that holds rows leaves every row
\* as it was and starts the new monitor's four counters at zero; a get_report
\* on the new monitor sees all the rows.
C14_InitIdempotent ==
    /\ [][last'.op = "init_monitor" =>
            /\ records' = records
            /\ session'.input_tokens = 0
            /\ session'.output_tokens = 0
            /\ session'.total_tokens = 0
            /\ session'.queries = 0]_vars
    /\ [][(last.op = "init_monitor" /\ last'.op = "get_report") =>
            /\ last'.ret.total_queries = Len(records)
            /\ { last'.rows[i].id : i \in 1..Len(last'.rows) } = 1..Len(records)
            /\ \A i \in 1..Len(last'.rows) :
                  last'.rows[i] = records[last'.rows[i].id]]_vars

\* a monitor has been constructed on a store that held the rows of two queries
C14_Witness ==
    /\ last.op = "init_monitor"
    /\ Len(records) = 2
    /\ nlogged = 2
    /\ session = ZeroSession

\* C15: with no tokenizer configured, count_tokens(text) returns
\* floor(len(text) / 4) for every text: it is >= 0, and for every text of
\* length >= 4 it is > 0 and < len(text).
C15_FallbackCount ==
    (last.op = "count_tokens" /\ tokenizer = None) =>
        LET n == Len(last.text)
            r == last.ret
        IN
        /\ 4 * r <= n
        /\ n < 4 * r + 4
        /\ r >= 0
        /\ (n >= 4) => (r > 0 /\ r < n)

\* the fallback count of a text of five characters is 1
C15_Witness ==
    /\ last.op = "count_tokens"
    /\ tokenizer = None
    /\ Len(last.text) = 5
    /\ last.ret = 1

\* C16: when the tokenizer cannot be resolved, set_tokenizer returns with the
\* monitor in fallback mode and with model_name, the session counters and the
\* rows unchanged; the counts made next are len // 4.
C16_BestEffortTokenizer ==
    /\ [][(last'.op = "set_tokenizer" /\ ~last'.resolved) =>
            /\ tokenizer' = None
            /\ model_name' = model_name
            /\ session' = session
            /\ records' = records]_vars
    /\ [][(last.op = "set_tokenizer" /\ ~last.resolved) =>
            /\ (last'.op = "log_query" /\ last'.ok) =>
                  /\ records'[Len(records')].input_tokens = Len(last'.user_query) \div 4
                  /\ records'[Len(records')].output_tokens = Len(last'.response_text) \div 4
            /\ (last'.op = "on_llm_start" /\ last'.prompts # <<>>) =>
                  session'.input_tokens
                    = session.input_tokens + Len(Join(last'.prompts)) \div 4]_vars

\* a failed set_tokenizer on a monitor that had a tokenizer, counters and rows
C16_Witness ==
    /\ last.op = "set_tokenizer"
    /\ ~last.resolved
    /\ tokenizer = None
    /\ model_name # <<>>
    /\ Len(records) > 0
    /\ records[Len(records)].input_tokens = TokenizerLen
    /\ session.input_tokens > 0
    /\ session.queries > 0

\* C17: under every interleaving of get, set, clear_expired and get_stats by
\* concurrent callers, no call fails with an error and the map holds only
\* entries written by some set.
C17_ConcurrentCallersSafe ==
    /\ \A c \in Callers : callers[c].err = None
    /\ \A k \in Keys :
          InCache(cache, k) =>
              /\ written[k] # None
              /\ cache[k] = Entry(written[k][1].value, written[k][1].at)

\* C18: when the store cannot be opened or written, log_query raises to its
\* caller, appends no row and does not count the query: the four session
\* counters and all the rows are as before the call.
C18_StorageFailure ==
    [][(last'.op = "log_query" /\ ~last'.ok) =>
         /\ records' = records
         /\ session'.queries = session.queries
         /\ session'.input_tokens = session.input_tokens
         /\ session'.output_tokens = session.output_tokens
         /\ session'.total_tokens = session.total_tokens]_vars

\* a log_query that raised, after one that had stored its row
C18_Witness ==
    /\ last.op = "log_query"
    /\ ~last.ok
    /\ Len(records) = 1
    /\ session.queries = 1

\* the ids of the rows the report just returned
ReportedIds == { last.rows[i].id : i \in 1..Len(last.rows) }

\* C19 as stated: a row is selected if and only if start_date <= timestamp when
\* start_date is supplied (not None) and timestamp <= end_date when end_date is
\* supplied (not None); with neither bound every row is selected.
C19_DateFilterSupplied ==
    (last.op = "get_report" /\ last.limit = DefaultLimit) =>
        ReportedIds =
            { i \in 1..Len(records) :
                /\ last.start_date # None =>
                      LexLE(last.start_date[1], records[i].timestamp)
                /\ last.end_date # None =>
                      LexLE(records[i].timestamp, last.end_date[1]) }

\* the instant of a full timestamp, in clock ticks
Instant(ts) == ts[1] * TicksPerDay + ts[2]

\* start_date <= timestamp for a bound that is a full timestamp (compared as
\* instants) or a date alone (the rows of that day and later)
AtOrAfter(ts, bound) ==
    IF Len(bound) = 2 THEN Instant(bound) <= Instant(ts) ELSE bound[1] <= ts[1]

\* timestamp <= end_date for a bound that is a full timestamp (compared as
\* instants) or a date alone (as a text it precedes every timestamp of its day,
\* so the rows of earlier days only)
AtOrBefore(ts, bound) ==
    IF Len(bound) = 2 THEN Instant(ts) <= Instant(bound) ELSE ts[1] < bound[1]

\* C19: a row is selected if and only if start_date <= timestamp when
\* start_date is a non-empty text and timestamp <= end_date when end_date is a
\* non-empty text, both inclusive, in the order of the ISO-8601 texts; a bound
\* that is None or the empty string is not applied, and with no bound applied
\* every row is selected.
C19_DateFilter ==
    (last.op = "get_report" /\ last.limit = DefaultLimit) =>
        /\ ReportedIds =
              { i \in 1..Len(records) :
                  /\ (last.start_date # None /\ last.start_date[1] # <<>>) =>
                        AtOrAfter(records[i].timestamp, last.start_date[1])
                  /\ (last.end_date # None /\ last.end_date[1] # <<>>) =>
                        AtOrBefore(records[i].timestamp, last.end_date[1]) }
        /\ (last.start_date \in {None, Some(<<>>)} /\ last.end_date \in {None, Some(<<>>)})
              => ReportedIds = 1..Len(records)

\* both bounds equal to the timestamp of the one row selected, among others
C19_Witness ==
    /\ last.op = "get_report"
    /\ last.limit = DefaultLimit
    /\ last.start_date = Some(<<0, 1>>)
    /\ last.end_date = Some(<<0, 1>>)
    /\ Len(last.rows) = 1
    /\ last.rows[1].timestamp = <<0, 1>>
    /\ Len(records) > RecentCap + 1

\* C20: every pass of the loop that stores an answer in the cache on a miss
\* appends exactly one row for that query in the same pass, and between passes
\* every entry of the cache has the row of the invocation that produced it.
C20_PairedLogging ==
    /\ [][(last'.op = "iteration" /\ last'.shown # None /\ last'.invoked) =>
            /\ Len(records') = Len(records) + 1
            /\ records'[Len(records')].user_query = last'.query]_vars
    /\ [](\A q \in LoopInputs \ (ExitWords \cup {Empty}) :
            LET k == GenerateKey(<<q, RepoOwner, RepoName>>) IN
            InCache(cache, k) =>
                \E i \in 1..Len(records) :
                    /\ records[i].user_query = q
                    /\ records[i].timestamp = IsoFormat(cache[k][1].timestamp))

\* C21: get changes the value or timestamp of no entry (a hit does not renew
\* the entry), touches no entry of another key, and removes at most the entry
\* of the probed key, and only when that entry is expired.
C21_GetFrame ==
    [][last'.op = "get" =>
         LET k == GenerateKey(last'.triple) IN
         \A j \in Keys :
            \/ cache'[j] = cache[j]
            \/ /\ j = k
               /\ cache'[j] = Absent
               /\ InCache(cache, k)
               /\ now - cache[k][1].timestamp > TTL]_vars

\* a hit on an entry set earlier, beside an expired entry of the other key
C21_Witness ==
    /\ last.op = "get"
    /\ last.ret # None
    /\ LET k == GenerateKey(last.triple) IN
       /\ InCache(cache, k)
       /\ cache[k][1].timestamp < now
       /\ \E j \in Keys \ {k} :
             InCache(cache, j) /\ now - cache[j][1].timestamp > TTL

\* C22: clear_expired removes exactly the entries whose age exceeds ttl at the
\* call and leaves every entry of age <= ttl with its value and timestamp.
C22_SweepExact ==
    [][last'.op = "clear_expired" =>
         \A k \in Keys :
            IF InCache(cache, k) /\ now - cache[k][1].timestamp > TTL
            THEN cache'[k] = Absent
            ELSE cache'[k] = cache[k]]_vars

\* a sweep that removed one entry and kept one whose age is exactly ttl
C22_Witness ==
    /\ last.op = "clear_expired"
    /\ Cardinality(last.swept) = 1
    /\ \E k \in Keys \ last.swept :
          InCache(cache, k) /\ now - cache[k][1].timestamp = TTL

\* C23: set on a key that has an entry, live or expired, replaces its value
\* and timestamp: the key has the one entry just set, the other keys are as
\* before, and from then on get returns the new value until ttl has passed
\* since this set, and None after that.
C23_OverwriteRenews ==
    [][last'.op = "set" =>
         LET k == GenerateKey(last'.triple) IN
         /\ cache'[k] = Entry(last'.value, now)
         /\ \A j \in Keys \ {k} : cache'[j] = cache[j]
         /\ \A later \in now..(now + TTL + 1) :
               GetResult(cache', k, later)
                 = IF later - now <= TTL THEN Some(last'.value) ELSE None]_vars

\* a set that replaced an expired entry holding another value
C23_Witness ==
    /\ last.op = "set"
    /\ last.replaced = "expired"
    /\ last.value = S_y4
    /\ cache[GenerateKey(last.triple)] = Entry(S_y4, now)
    /\ now > TTL

\* C24: log_query stores a token count supplied by the caller as it is, a
\* supplied 0 included, and a count made by count_tokens only for an argument
\* not supplied; it stores response_length = len(response_text) and the
\* monitor's model_name; it adds one to the session's queries and leaves the
\* session's input_tokens, output_tokens and total_tokens as they were.
C24_LogQueryInputs ==
    [][(last'.op = "log_query" /\ last'.ok) =>
         LET row == records'[Len(records')] IN
         /\ row.input_tokens =
               IF last'.input_arg # None THEN last'.input_arg[1]
               ELSE IF tokenizer = None THEN Len(last'.user_query) \div 4
               ELSE TokenizerLen
         /\ row.output_tokens =
               IF last'.output_arg # None THEN last'.output_arg[1]
               ELSE IF tokenizer = None THEN Len(last'.response_text) \div 4
               ELSE TokenizerLen
         /\ row.user_query = last'.user_query
         /\ row.response_length = Len(last'.response_text)
         /\ row.model_name = model_name
         /\ session'.queries = session.queries + 1
         /\ session'.input_tokens = session.input_tokens
         /\ session'.output_tokens = session.output_tokens
         /\ session'.total_tokens = session.total_tokens]_vars

\* a supplied input count of 0 stored beside a counted output, with the model
\* name set and the session's output counter positive
C24_Witness ==
    /\ last.op = "log_query"
    /\ last.ok
    /\ last.input_arg = Some(0)
    /\ last.output_arg = None
    /\ records[Len(records)].input_tokens = 0
    /\ records[Len(records)].output_tokens > 0
    /\ records[Len(records)].response_length = 5
    /\ records[Len(records)].model_name # <<>>
    /\ session.input_tokens > 0
    /\ session.output_tokens > 0
    /\ session.queries = 2

RECURSIVE JoinedLen(_)
\* the length of the texts written one after the other with one space between
JoinedLen(texts) ==
    IF texts = <<>> THEN 0
    ELSE IF Len(texts) = 1 THEN Len(texts[1])
    ELSE Len(texts[1]) + 1 + JoinedLen(Tail(texts))

\* C25: on_llm_start adds count_tokens of the prompts joined with one space to
\* the session's input_tokens, does nothing for an empty prompt list, and
\* changes neither the session's output_tokens and queries nor any row.
C25_OnLlmStartFrame ==
    [][last'.op = "on_llm_start" =>
         /\ session'.input_tokens =
               session.input_tokens
                 + (IF last'.prompts = <<>> THEN 0
                    ELSE IF tokenizer = None THEN JoinedLen(last'.prompts) \div 4
                    ELSE TokenizerLen)
         /\ (last'.prompts = <<>>) => (session' = session)
         /\ session'.output_tokens = session.output_tokens
         /\ session'.queries = session.queries
         /\ records' = records]_vars

\* two prompts of 3 and 4 characters counted as 8 characters, on a monitor
\* with output counted, a query logged and a row stored
C25_Witness ==
    /\ last.op = "on_llm_start"
    /\ last.prompts = <<S_ab, S_y4>>
    /\ tokenizer = None
    /\ session.input_tokens = 2
    /\ session.output_tokens > 0
    /\ session.queries > 0
    /\ Len(records) > 0

\* C26: when concurrent callers run log_query on one monitor, once all calls
\* have returned the store holds exactly one new row per call, each with its
\* own id, and the session's queries has grown by the number of calls.
C26_ConcurrentAppends ==
    (\A c \in Callers : callers[c].pc \in {"idle", "failed"}) =>
        /\ Len(records) = nlogged
        /\ \A i, j \in 1..Len(records) : i # j => records[i].id # records[j].id
        /\ session.queries = nlogged

\* the entry of key k is in the map although its age has exceeded ttl
ExpiredInMap(k) == InCache(cache, k) /\ now - cache[k][1].timestamp > TTL

\* the pass just made processed a query: it probed the cache for it
QueryProcessed ==
    /\ last.op = "iteration"
    /\ last.path \in {"hit", "failed", "answered", "answered_unlogged"}

\* C27: as long as the loop keeps processing queries, every entry whose age has
\* exceeded ttl is eventually removed from the map.
C27_ExpiredEventuallyRemoved ==
    ([]<>QueryProcessed) =>
        \A k \in Keys : (ExpiredInMap(k) ~> ~ExpiredInMap(k))

====
